---- MODULE Spec2Model ----
(***************************************************************************)
(* Frame pipeline of flutter_runner::RuntimeHolder                         *)
(* (src/content_handler/runtime_holder.cc).                                *)
(*                                                                         *)
(* Three execution contexts are modelled:                                  *)
(*   - the control context, which runs OnInvalidation, BeginFrame,         *)
(*     Render, ScheduleFrame, OnFrameComplete and the destructor; its      *)
(*     position is the call stack pc (<<>> when it is idle);               *)
(*   - the producer (script runtime), which runs inside                    *)
(*     runtime_->BeginFrame on the control context and may call Render     *)
(*     and ScheduleFrame;                                                  *)
(*   - the GPU context, a FIFO task queue (gpu_tasks) on which Render      *)
(*     posts its Draw task.                                                *)
(* The moved-from deferred_invalidation_callback_ is taken to be empty.    *)
(***************************************************************************)
EXTENDS Integers, Sequences, FiniteSets, TLC

\* --------------------------------------------------------------------------
\* Program constants
\* --------------------------------------------------------------------------
kMaxPipelineDepth == 3

\* A recovery threshold one lower than the program's.
kRecoveryPipelineDepth_lower == 1 - 1

kRecoveryPipelineDepth == 1

\* --------------------------------------------------------------------------
\* Bounds of the model
\* --------------------------------------------------------------------------
\* Number of invalidations the bridge sends in one behaviour.
MaxInvalidations == 5

\* Number of calls (Render, ScheduleFrame, HandlePlatformMessage) the
\* producer makes in one frame callback.
MaxProducerCalls == 2

\* Number of distinct viewport metrics values an invalidation may carry.
MaxMetrics == 1

\* Number of input events delivered to the view.
MaxEvents == 3

\* Number of pointer devices.
MaxDevices == 2

\* Length of the text of the text input view, in UTF-16 units.
MaxTextLen == 2

\* Largest offset, in either direction, of positionFromPosition:offset:.
MaxOffset == 2

\* Number of calls of fml::Thread::Join before the destructor.
MaxJoinCalls == 3

\* Number of tasks a user of fml::Thread may have waiting in its loop.
MaxQueued == 3

\* --------------------------------------------------------------------------
\* Values
\* --------------------------------------------------------------------------
\* An empty OnInvalidationCallback (std::function with no target).
NoCallback == 0

\* Callbacks are identified by the number of the invalidation they belong to.
Callbacks == 1..MaxInvalidations

\* invalidation->properties is either null (NoProperties) or carries metrics.
NoProperties == 0

Metrics == 1..MaxMetrics

VARIABLES
    \* RuntimeHolder fields
    outstanding_requests_,
    deferred_invalidation_callback_,
    pending_invalidation_,
    is_ready_to_draw_,
    scene_version_,
    viewport_metrics_,
    \* true from construction until ~RuntimeHolder has run (weak pointers
    \* handed out by weak_factory_ are valid exactly while alive)
    alive,
    \* producer (blink::RuntimeController) side
    runtime_metrics,
    producer_calls,
    \* control context: call stack and locals of the executing handlers
    pc,
    callback,
    drain_callback,
    \* GPU context and draw completions
    gpu_tasks,
    draws_in_progress,
    completions,
    \* view host bridge
    next_id,
    acks,
    view_invalidates,
    invalidates_since_arrival,
    \* view and text input: the view listener binding is bound once
    \* CreateView has created the view and the runtime
    view_listener_binding_,
    current_text_input_client_,
    input_method_editor_,
    \* completions of the response of the platform message handled last
    response,
    \* true once the GPU context has run the task that deletes the rasterizer
    rasterizer_deleted,
    \* build type and process state
    dchecks_on,
    aborted,
    \* history: events of the handler that is executing or executed last,
    \* and the callbacks that have been stored in the deferred slot
    log,
    deferred_ever,
    \* RuntimeHolder::OnEvent: the devices that are down, and the history
    \* of OnEvent: the events received, the change dispatched to the runtime
    \* for the last event and the values its callback was invoked with
    down_pointers_,
    events,
    dispatched,
    event_callbacks,
    \* fml::Thread: the positions of the thread that owns the object and of
    \* the thread it starts, the constructor's locals latch and runner, the
    \* fields task_runner_ and joined_, the message loop's task queue, and
    \* the history: calls of Join, Terminate tasks posted, joins of the
    \* underlying thread, writes to the constructor's locals after its return
    owner,
    thread_,
    latch,
    runner,
    task_runner_,
    joined_,
    loop_tasks,
    join_calls,
    terminate_posts,
    thread_joins,
    stale_writes,
    \* FlutterTextInputView: the text (a sequence of UTF-16 code units), the
    \* selected range and the result of the last positionFromPosition:offset:
    text,
    selectedTextRange,
    position

holder == <<outstanding_requests_, deferred_invalidation_callback_,
            pending_invalidation_, is_ready_to_draw_, scene_version_,
            viewport_metrics_>>

vars == <<outstanding_requests_, deferred_invalidation_callback_,
          pending_invalidation_, is_ready_to_draw_, scene_version_,
          viewport_metrics_, alive, runtime_metrics, producer_calls, pc,
          callback, drain_callback, gpu_tasks, draws_in_progress,
          completions, next_id, acks, view_invalidates,
          invalidates_since_arrival, view_listener_binding_,
          current_text_input_client_, input_method_editor_, response,
          rasterizer_deleted, dchecks_on, aborted, log, deferred_ever,
          down_pointers_, events, dispatched, event_callbacks, owner,
          thread_, latch, runner, task_runner_, joined_, loop_tasks,
          join_calls, terminate_posts, thread_joins, stale_writes, text,
          selectedTextRange, position>>

\* The variables of the frame pipeline and of the platform messages, but for
\* the build type and the process state.
frame_pipeline ==
    <<outstanding_requests_, deferred_invalidation_callback_,
      pending_invalidation_, is_ready_to_draw_, scene_version_,
      viewport_metrics_, alive, runtime_metrics, producer_calls, pc,
      callback, drain_callback, gpu_tasks, draws_in_progress, completions,
      next_id, acks, view_invalidates, invalidates_since_arrival,
      view_listener_binding_, current_text_input_client_,
      input_method_editor_, response, rasterizer_deleted, log,
      deferred_ever>>

input_vars == <<down_pointers_, events, dispatched, event_callbacks>>

thread_vars == <<owner, thread_, latch, runner, task_runner_, joined_,
                 loop_tasks, join_calls, terminate_posts, thread_joins,
                 stale_writes>>

text_view_vars == <<text, selectedTextRange, position>>

text_input == <<current_text_input_client_, input_method_editor_>>

messaging == <<current_text_input_client_, input_method_editor_, response>>

\* --------------------------------------------------------------------------
\* Helpers
\* --------------------------------------------------------------------------
\* An event of the log: its name, the callback it concerns (0 when none) and
\* the pipeline depth at the moment it is logged.
Event(e, i) == [ev |-> e, id |-> i, depth |-> outstanding_requests_]

Top == IF pc = <<>> THEN "idle" ELSE Head(pc)

Idle == pc = <<>>

Running == alive /\ ~aborted

\* Replace the executing frame of the call stack by the frames s.
Goto(s) == s \o Tail(pc)

Return == Tail(pc)

\* callback(): the acknowledgement of invalidation i reaches the bridge.
Ack(i) == [acks EXCEPT ![i] = @ + 1]

\* Number of occurrences of event name e in a log.
RECURSIVE Count(_, _)
Count(l, e) ==
    IF l = <<>> THEN 0
    ELSE (IF Head(l).ev = e THEN 1 ELSE 0) + Count(Tail(l), e)

\* Position of the first event named e in the log, 0 when there is none.
RECURSIVE IndexFrom(_, _, _)
IndexFrom(l, e, k) ==
    IF k > Len(l) THEN 0
    ELSE IF l[k].ev = e THEN k
    ELSE IndexFrom(l, e, k + 1)

Index(l, e) == IndexFrom(l, e, 1)

\* A failing FTL_DCHECK is fatal when DCHECKs are compiled in.
DcheckFails(cond) == dchecks_on /\ ~cond

Init ==
    /\ outstanding_requests_ = 0
    /\ deferred_invalidation_callback_ = NoCallback
    /\ pending_invalidation_ = FALSE
    /\ is_ready_to_draw_ = FALSE
    /\ scene_version_ = 0
    /\ viewport_metrics_ = NoProperties
    /\ alive = TRUE
    /\ runtime_metrics = NoProperties
    /\ producer_calls = 0
    /\ pc = <<>>
    /\ callback = NoCallback
    /\ drain_callback = NoCallback
    /\ gpu_tasks = <<>>
    /\ draws_in_progress = 0
    /\ completions = 0
    /\ next_id = 1
    /\ acks = [i \in Callbacks |-> 0]
    /\ view_invalidates = 0
    /\ invalidates_since_arrival = 0
    /\ view_listener_binding_ = FALSE
    /\ current_text_input_client_ = 0
    /\ input_method_editor_ = FALSE
    /\ response = <<>>
    /\ rasterizer_deleted = FALSE
    /\ dchecks_on \in BOOLEAN
    /\ aborted = FALSE
    /\ log = <<>>
    /\ deferred_ever = {}
    /\ down_pointers_ = {}
    /\ events = <<>>
    /\ dispatched = [kind |-> "none", change |-> "none", device |-> 0]
    /\ event_callbacks = <<>>
    /\ owner = "start"
    /\ thread_ = <<"none">>
    /\ latch = FALSE
    /\ runner = "null"
    /\ task_runner_ = "null"
    /\ joined_ = FALSE
    /\ loop_tasks = <<>>
    /\ join_calls = 0
    /\ terminate_posts = 0
    /\ thread_joins = 0
    /\ stale_writes = 0
    /\ text = <<>>
    /\ selectedTextRange = [location |-> 0, length |-> 0]
    /\ position = [text |-> <<>>, from |-> 0, offset |-> 0, index |-> 0]

\* --------------------------------------------------------------------------
\* Calls made from several handlers.  Each takes the log to extend.
\* --------------------------------------------------------------------------
\* ScheduleFrame without its test: every call notifies the bridge.
ScheduleFrame_noGuard(l) ==
    /\ pending_invalidation_' = TRUE
    /\ view_invalidates' = view_invalidates + 1
    /\ invalidates_since_arrival' = invalidates_since_arrival + 1
    /\ log' = Append(l, Event("Invalidate", 0))

\* RuntimeHolder::ScheduleFrame
ScheduleFrame(l) ==
    IF pending_invalidation_ \/ deferred_invalidation_callback_ # NoCallback
    THEN /\ UNCHANGED <<pending_invalidation_, view_invalidates,
                        invalidates_since_arrival>>
         /\ log' = l
    ELSE /\ pending_invalidation_' = TRUE
         /\ view_invalidates' = view_invalidates + 1
         /\ invalidates_since_arrival' = invalidates_since_arrival + 1
         /\ log' = Append(l, Event("Invalidate", 0))

\* A task runner that runs the task posted last first.
PostTask_atFront(queue, task) == <<task>> \o queue

\* blink::Threads::Gpu()->PostTask: the task joins the end of the GPU
\* context's queue.
PostTask(queue, task) == Append(queue, task)

\* The task CreateView posts to the GPU context: rasterizer->SetScene.
SetSceneTask == [kind |-> "SetScene", scene_version |-> 0,
                 frame_size |-> NoProperties]

\* A layer tree posted without set_scene_version.
DrawTask_noVersion == [kind |-> "Draw", scene_version |-> 0,
                       frame_size |-> viewport_metrics_]

\* The task Render posts to the GPU context, with the stamps of the layer
\* tree it carries.
DrawTask == [kind |-> "Draw", scene_version |-> scene_version_,
             frame_size |-> viewport_metrics_]

\* The task the destructor posts to the GPU context.
DeleteRasterizerTask == [kind |-> "DeleteRasterizer", scene_version |-> 0,
                         frame_size |-> NoProperties]

\* Render that posts the Draw task but leaves the ready-to-draw flag set.
Render_keepsReady(l) ==
    /\ UNCHANGED draws_in_progress
    /\ IF ~is_ready_to_draw_
       THEN /\ UNCHANGED <<is_ready_to_draw_, gpu_tasks>>
            /\ log' = Append(l, Event("Render", 0))
       ELSE /\ UNCHANGED is_ready_to_draw_
            /\ gpu_tasks' = Append(gpu_tasks, DrawTask)
            /\ log' = l \o <<Event("Render", 0), Event("PostDraw", 0)>>

\* Render without the ready-to-draw test: every call posts a Draw task.
Render_noGuard(l) ==
    /\ UNCHANGED draws_in_progress
    /\ is_ready_to_draw_' = FALSE
    /\ gpu_tasks' = Append(gpu_tasks, DrawTask)
    /\ log' = l \o <<Event("Render", 0), Event("PostDraw", 0)>>

\* Render that calls rasterizer->Draw itself instead of posting the task.
Render_drawsInline(l) ==
    IF ~is_ready_to_draw_
    THEN /\ UNCHANGED <<is_ready_to_draw_, gpu_tasks, draws_in_progress>>
         /\ log' = Append(l, Event("Render", 0))
    ELSE /\ is_ready_to_draw_' = FALSE
         /\ draws_in_progress' = draws_in_progress + 1
         /\ UNCHANGED gpu_tasks
         /\ log' = l \o <<Event("Render", 0), Event("PostDraw", 0)>>

\* RuntimeHolder::Render.  Every call is logged ("Render"), and the posting
\* of the Draw task as well ("PostDraw"); rasterizer->Draw is not called
\* here, so no draw starts.
Render(l) ==
    /\ UNCHANGED draws_in_progress
    /\ IF ~is_ready_to_draw_
       THEN /\ UNCHANGED <<is_ready_to_draw_, gpu_tasks>>
            /\ log' = Append(l, Event("Render", 0))
       ELSE /\ is_ready_to_draw_' = FALSE
            /\ gpu_tasks' = PostTask(gpu_tasks, DrawTask)
            /\ log' = l \o <<Event("Render", 0), Event("PostDraw", 0)>>

\* --------------------------------------------------------------------------
\* View host bridge -> controller
\* --------------------------------------------------------------------------
\* Every invalidation sent so far has been acknowledged.
AllAcknowledged == \A i \in 1..(next_id - 1) : acks[i] >= 1

\* The depth test off by one: > where the code has >=.
PipelineFull_offByOne == outstanding_requests_ > kMaxPipelineDepth

\* OnInvalidation: the test that selects the deferred path.
PipelineFull == outstanding_requests_ >= kMaxPipelineDepth

\* The acknowledgement run before the frame is begun.
ImmediatePath_callbackFirst == <<"OnInvalidation_callback", "BeginFrame">>

\* OnInvalidation, immediate path: BeginFrame() is called, then callback().
ImmediatePath == <<"BeginFrame", "OnInvalidation_callback">>

\* A pending flag cleared on the immediate path only.
PendingAfterArrival_keptWhenFull == pending_invalidation_ /\ PipelineFull

\* OnInvalidation: pending_invalidation_ = false, before anything else.
PendingAfterArrival == FALSE

\* View properties applied only when the frame is begun at once.
HasProperties_notWhenFull(properties) ==
    properties # NoProperties /\ ~PipelineFull

\* OnInvalidation: if (invalidation->properties), before the depth test.
HasProperties(properties) == properties # NoProperties

\* RuntimeHolder::OnInvalidation, up to the call of BeginFrame (immediate
\* path) or to the return (deferred path).  The invalidation is number
\* next_id; its scene version is its number.
OnInvalidation(properties) ==
    /\ Running /\ Idle
    /\ next_id <= MaxInvalidations
    /\ next_id' = next_id + 1
    /\ pending_invalidation_' = PendingAfterArrival
    /\ IF HasProperties(properties)
       THEN /\ viewport_metrics_' = properties
            /\ runtime_metrics' = properties
       ELSE UNCHANGED <<viewport_metrics_, runtime_metrics>>
    /\ scene_version_' = next_id
    /\ IF PipelineFull
       THEN IF DcheckFails(deferred_invalidation_callback_ = NoCallback)
            THEN /\ aborted' = TRUE
                 /\ log' = <<Event("OnInvalidation", next_id)>>
                 /\ UNCHANGED <<deferred_invalidation_callback_,
                                deferred_ever, outstanding_requests_, pc,
                                callback>>
            ELSE /\ deferred_invalidation_callback_' = next_id
                 /\ deferred_ever' = deferred_ever \cup {next_id}
                 /\ log' = <<Event("OnInvalidation", next_id),
                             Event("defer", next_id)>>
                 /\ UNCHANGED <<aborted, outstanding_requests_, pc, callback>>
       ELSE /\ outstanding_requests_' = outstanding_requests_ + 1
            /\ pc' = ImmediatePath
            /\ callback' = next_id
            /\ log' = <<Event("OnInvalidation", next_id)>>
            /\ UNCHANGED <<aborted, deferred_invalidation_callback_,
                           deferred_ever>>
    /\ invalidates_since_arrival' = 0
    /\ UNCHANGED <<is_ready_to_draw_, alive, producer_calls, drain_callback,
                   gpu_tasks, draws_in_progress, completions, acks,
                   view_invalidates, dchecks_on, view_listener_binding_,
                   rasterizer_deleted, messaging,
                   input_vars, thread_vars, text_view_vars>>

\* RuntimeHolder::CreateView: nothing happens when the view exists already
\* or when neither kernel nor snapshot can be loaded; otherwise the view
\* listener is bound, rasterizer->SetScene is posted to the GPU context and
\* the runtime is created.
CreateView(loaded) ==
    /\ Running /\ Idle
    /\ IF view_listener_binding_ \/ ~loaded
       THEN UNCHANGED <<view_listener_binding_, gpu_tasks>>
       ELSE /\ view_listener_binding_' = TRUE
            /\ gpu_tasks' = PostTask(gpu_tasks, SetSceneTask)
    /\ log' = <<>>
    /\ UNCHANGED <<holder, alive, runtime_metrics, producer_calls, pc,
                   callback, drain_callback, draws_in_progress, completions,
                   next_id, acks, view_invalidates,
                   invalidates_since_arrival, dchecks_on, aborted,
                   deferred_ever, rasterizer_deleted, messaging,
                   input_vars, thread_vars, text_view_vars>>

\* The application host creates the view.
ViewCreation == \E loaded \in BOOLEAN : CreateView(loaded)

\* The bridge sends an invalidation after the previous one was acknowledged.
ViewInvalidation ==
    \E properties \in {NoProperties} \cup Metrics :
        /\ view_listener_binding_
        /\ AllAcknowledged
        /\ OnInvalidation(properties)

\* The bridge sends an invalidation while an earlier one is unacknowledged
\* (a violation of the bridge's protocol).
ViewInvalidationUnacknowledged ==
    \E properties \in {NoProperties} \cup Metrics :
        /\ view_listener_binding_
        /\ ~AllAcknowledged
        /\ OnInvalidation(properties)

\* OnInvalidation: callback() on the immediate path.
OnInvalidation_callback ==
    /\ Running /\ Top = "OnInvalidation_callback"
    /\ acks' = Ack(callback)
    /\ log' = Append(log, Event("ack", callback))
    /\ UNCHANGED callback
    /\ pc' = Return
    /\ UNCHANGED <<holder, alive, runtime_metrics, producer_calls,
                   drain_callback, gpu_tasks, draws_in_progress, completions,
                   next_id, view_invalidates,
                   invalidates_since_arrival, dchecks_on, aborted,
                   deferred_ever,
                   view_listener_binding_, rasterizer_deleted, messaging,
                   input_vars, thread_vars, text_view_vars>>

\* --------------------------------------------------------------------------
\* Frame lifecycle
\* --------------------------------------------------------------------------
\* RuntimeHolder::BeginFrame, up to the call of runtime_->BeginFrame.
BeginFrame ==
    /\ Running /\ Top = "BeginFrame"
    /\ IF DcheckFails(/\ outstanding_requests_ > 0
                      /\ outstanding_requests_ <= kMaxPipelineDepth
                      /\ ~is_ready_to_draw_)
       THEN /\ aborted' = TRUE
            /\ UNCHANGED <<is_ready_to_draw_, producer_calls, pc, log>>
       ELSE /\ is_ready_to_draw_' = TRUE
            /\ producer_calls' = 0
            /\ pc' = Goto(<<"runtime_BeginFrame">>)
            /\ log' = Append(log, Event("BeginFrame", 0))
            /\ UNCHANGED aborted
    /\ UNCHANGED <<outstanding_requests_, deferred_invalidation_callback_,
                   pending_invalidation_, scene_version_, viewport_metrics_,
                   alive, runtime_metrics, callback, drain_callback,
                   gpu_tasks, draws_in_progress, completions, next_id, acks,
                   view_invalidates,
                   invalidates_since_arrival, dchecks_on, deferred_ever,
                   view_listener_binding_, rasterizer_deleted, messaging,
                   input_vars, thread_vars, text_view_vars>>

\* The producer's frame callback submits a layer tree.
ProducerRender ==
    /\ Running /\ Top = "runtime_BeginFrame"
    /\ producer_calls < MaxProducerCalls
    /\ producer_calls' = producer_calls + 1
    /\ Render(log)
    /\ UNCHANGED <<outstanding_requests_, deferred_invalidation_callback_,
                   pending_invalidation_, scene_version_, viewport_metrics_,
                   alive, runtime_metrics, pc, callback, drain_callback,
                   completions, next_id, acks,
                   view_invalidates,
                   invalidates_since_arrival, dchecks_on, aborted,
                   deferred_ever,
                   view_listener_binding_, rasterizer_deleted, messaging,
                   input_vars, thread_vars, text_view_vars>>

\* The producer's frame callback asks for another frame.
ProducerScheduleFrame ==
    /\ Running /\ Top = "runtime_BeginFrame"
    /\ producer_calls < MaxProducerCalls
    /\ producer_calls' = producer_calls + 1
    /\ ScheduleFrame(log)
    /\ UNCHANGED <<outstanding_requests_, deferred_invalidation_callback_,
                   is_ready_to_draw_, scene_version_, viewport_metrics_,
                   alive, runtime_metrics, pc, callback, drain_callback,
                   gpu_tasks, draws_in_progress, completions, next_id, acks,
                   dchecks_on, aborted, deferred_ever,
                   view_listener_binding_, rasterizer_deleted, messaging,
                   input_vars, thread_vars, text_view_vars>>

\* The empty frame never detected.
was_ready_to_draw_never == FALSE

\* BeginFrame: const bool was_ready_to_draw = is_ready_to_draw_.
was_ready_to_draw == is_ready_to_draw_

\* RuntimeHolder::BeginFrame after runtime_->BeginFrame has returned.
BeginFrame_return ==
    /\ Running /\ Top = "runtime_BeginFrame"
    /\ is_ready_to_draw_' = FALSE
    /\ producer_calls' = 0
    /\ IF was_ready_to_draw
       THEN /\ pc' = Goto(<<"OnFrameComplete">>)
            /\ log' = Append(log, Event("BeginFrame_empty", 0))
       ELSE /\ pc' = Return
            /\ log' = Append(log, Event("BeginFrame_return", 0))
    /\ UNCHANGED <<outstanding_requests_, deferred_invalidation_callback_,
                   pending_invalidation_, scene_version_, viewport_metrics_,
                   alive, runtime_metrics, callback, drain_callback,
                   gpu_tasks, draws_in_progress, completions, next_id, acks,
                   view_invalidates,
                   invalidates_since_arrival, dchecks_on, aborted,
                   deferred_ever,
                   view_listener_binding_, rasterizer_deleted, messaging,
                   input_vars, thread_vars, text_view_vars>>

\* RuntimeHolder::OnFrameComplete: the DCHECK and the decrement.
OnFrameComplete ==
    /\ Running /\ Top = "OnFrameComplete"
    /\ IF DcheckFails(outstanding_requests_ > 0)
       THEN /\ aborted' = TRUE
            /\ UNCHANGED <<outstanding_requests_, pc, log>>
       ELSE /\ outstanding_requests_' = outstanding_requests_ - 1
            /\ pc' = Goto(<<"OnFrameComplete_drain">>)
            /\ log' = Append(log, Event("OnFrameComplete", 0))
            /\ UNCHANGED aborted
    /\ UNCHANGED <<deferred_invalidation_callback_, pending_invalidation_,
                   is_ready_to_draw_, scene_version_, viewport_metrics_,
                   alive, runtime_metrics, producer_calls, callback,
                   drain_callback, gpu_tasks, draws_in_progress, completions,
                   next_id, acks, view_invalidates,
                   invalidates_since_arrival, dchecks_on,
                   deferred_ever,
                   view_listener_binding_, rasterizer_deleted, messaging,
                   input_vars, thread_vars, text_view_vars>>

\* The drain started on any decrement, without the recovery threshold.
RecoveryReached_anyDecrement == deferred_invalidation_callback_ # NoCallback

\* OnFrameComplete: the test that starts the drain of the deferred slot.
RecoveryReached ==
    /\ deferred_invalidation_callback_ # NoCallback
    /\ outstanding_requests_ <= kRecoveryPipelineDepth

\* The deferred callback copied, not moved, into the local: the slot keeps it.
MovedFromCallback_copied == deferred_invalidation_callback_

\* OnFrameComplete: what std::move leaves in deferred_invalidation_callback_.
MovedFromCallback == NoCallback

\* The deferred callback run before the frame is scheduled.
DrainSteps_callbackFirst ==
    <<"OnFrameComplete_callback", "OnFrameComplete_ScheduleFrame">>

\* OnFrameComplete, drain: ScheduleFrame() is called, then callback().
DrainSteps == <<"OnFrameComplete_ScheduleFrame", "OnFrameComplete_callback">>

\* RuntimeHolder::OnFrameComplete: the recovery test and, when it passes,
\* the move of the deferred callback into the local.
OnFrameComplete_drain ==
    /\ Running /\ Top = "OnFrameComplete_drain"
    /\ IF RecoveryReached
       THEN /\ drain_callback' = deferred_invalidation_callback_
            /\ deferred_invalidation_callback_' = MovedFromCallback
            /\ pc' = Goto(DrainSteps)
            /\ log' = Append(log, Event("drain",
                                        deferred_invalidation_callback_))
       ELSE /\ pc' = Return
            /\ UNCHANGED <<drain_callback, deferred_invalidation_callback_,
                           log>>
    /\ UNCHANGED <<outstanding_requests_, pending_invalidation_,
                   is_ready_to_draw_, scene_version_, viewport_metrics_,
                   alive, runtime_metrics, producer_calls, callback,
                   gpu_tasks, draws_in_progress, completions, next_id, acks,
                   view_invalidates,
                   invalidates_since_arrival, dchecks_on, aborted,
                   deferred_ever,
                   view_listener_binding_, rasterizer_deleted, messaging,
                   input_vars, thread_vars, text_view_vars>>

\* RuntimeHolder::OnFrameComplete: ScheduleFrame() of the drain.
OnFrameComplete_ScheduleFrame ==
    /\ Running /\ Top = "OnFrameComplete_ScheduleFrame"
    /\ ScheduleFrame(log)
    /\ pc' = Return
    /\ UNCHANGED <<outstanding_requests_, deferred_invalidation_callback_,
                   is_ready_to_draw_, scene_version_, viewport_metrics_,
                   alive, runtime_metrics, producer_calls, callback,
                   drain_callback, gpu_tasks, draws_in_progress, completions,
                   next_id, acks, dchecks_on, aborted, deferred_ever,
                   view_listener_binding_, rasterizer_deleted, messaging,
                   input_vars, thread_vars, text_view_vars>>

\* RuntimeHolder::OnFrameComplete: callback() of the drain.
OnFrameComplete_callback ==
    /\ Running /\ Top = "OnFrameComplete_callback"
    /\ acks' = Ack(drain_callback)
    /\ log' = Append(log, Event("ack", drain_callback))
    /\ UNCHANGED drain_callback
    /\ pc' = Return
    /\ UNCHANGED <<holder, alive, runtime_metrics, producer_calls, callback,
                   gpu_tasks, draws_in_progress, completions, next_id,
                   view_invalidates,
                   invalidates_since_arrival, dchecks_on, aborted,
                   deferred_ever,
                   view_listener_binding_, rasterizer_deleted, messaging,
                   input_vars, thread_vars, text_view_vars>>

\* --------------------------------------------------------------------------
\* Producer calls outside a frame callback
\* --------------------------------------------------------------------------
\* The runtime calls ScheduleFrame while no handler is executing.
RuntimeScheduleFrame ==
    /\ Running /\ Idle
    /\ view_listener_binding_
    /\ ScheduleFrame(<<>>)
    /\ UNCHANGED <<outstanding_requests_, deferred_invalidation_callback_,
                   is_ready_to_draw_, scene_version_, viewport_metrics_,
                   alive, runtime_metrics, producer_calls, pc, callback,
                   drain_callback, gpu_tasks, draws_in_progress, completions,
                   next_id, acks, dchecks_on, aborted, deferred_ever,
                   view_listener_binding_, rasterizer_deleted, messaging,
                   input_vars, thread_vars, text_view_vars>>

\* The runtime calls Render while no handler is executing.
RuntimeRender ==
    /\ Running /\ Idle
    /\ view_listener_binding_
    /\ Render(<<>>)
    /\ UNCHANGED <<outstanding_requests_, deferred_invalidation_callback_,
                   pending_invalidation_, scene_version_, viewport_metrics_,
                   alive, runtime_metrics, producer_calls, pc, callback,
                   drain_callback, completions, next_id,
                   acks, view_invalidates,
                   invalidates_since_arrival, dchecks_on, aborted,
                   deferred_ever,
                   view_listener_binding_, rasterizer_deleted, messaging,
                   input_vars, thread_vars, text_view_vars>>

\* --------------------------------------------------------------------------
\* GPU context and draw completion
\* --------------------------------------------------------------------------
\* The GPU context runs the task at the head of its queue: a Draw task calls
\* rasterizer->Draw, the destructor's task deletes the rasterizer.
GpuRunTask ==
    /\ ~aborted
    /\ gpu_tasks # <<>>
    /\ gpu_tasks' = Tail(gpu_tasks)
    /\ draws_in_progress' =
          IF Head(gpu_tasks).kind = "Draw"
          THEN draws_in_progress + 1
          ELSE draws_in_progress
    /\ rasterizer_deleted' =
          (rasterizer_deleted \/ Head(gpu_tasks).kind = "DeleteRasterizer")
    /\ UNCHANGED <<holder, alive, runtime_metrics, producer_calls, pc,
                   callback, drain_callback, completions, next_id, acks,
                   view_invalidates,
                   invalidates_since_arrival, dchecks_on, aborted, log,
                   deferred_ever,
                   view_listener_binding_, messaging,
                   input_vars, thread_vars, text_view_vars>>

\* Rasterizer::Draw invoking the continuation itself, on the GPU context:
\* OnFrameComplete's decrement runs there, whatever the control context is
\* doing.
RasterizerDrawComplete_onGpuContext ==
    /\ ~aborted
    /\ draws_in_progress > 0
    /\ draws_in_progress' = draws_in_progress - 1
    /\ outstanding_requests_' =
          IF alive THEN outstanding_requests_ - 1 ELSE outstanding_requests_
    /\ UNCHANGED <<deferred_invalidation_callback_, pending_invalidation_,
                   is_ready_to_draw_, scene_version_, viewport_metrics_,
                   alive, runtime_metrics, producer_calls, pc, callback,
                   drain_callback, gpu_tasks, completions, next_id, acks,
                   view_invalidates, invalidates_since_arrival, dchecks_on,
                   aborted, log, deferred_ever,
                   view_listener_binding_, rasterizer_deleted, messaging,
                   input_vars, thread_vars, text_view_vars>>

\* Rasterizer::Draw finishes and hands the completion continuation to the
\* control context, once per Draw.
RasterizerDrawComplete ==
    /\ ~aborted
    /\ draws_in_progress > 0
    /\ draws_in_progress' = draws_in_progress - 1
    /\ completions' = completions + 1
    /\ UNCHANGED <<holder, alive, runtime_metrics, producer_calls, pc,
                   callback, drain_callback, gpu_tasks, next_id, acks,
                   view_invalidates,
                   invalidates_since_arrival, dchecks_on, aborted, log,
                   deferred_ever,
                   view_listener_binding_, rasterizer_deleted, messaging,
                   input_vars, thread_vars, text_view_vars>>

\* The weak pointer never tested: the continuation always calls through.
self_unchecked == TRUE

\* The weak pointer self captured by Render's task: valid while the
\* RuntimeHolder exists.
self == alive

\* The completion continuation of Render: if (self) self->OnFrameComplete().
DrawCompletion ==
    /\ ~aborted /\ Idle
    /\ completions > 0
    /\ completions' = completions - 1
    /\ IF self
       THEN /\ pc' = <<"OnFrameComplete">>
            /\ log' = <<>>
       ELSE UNCHANGED <<pc, log>>
    /\ UNCHANGED <<holder, alive, runtime_metrics, producer_calls, callback,
                   drain_callback, gpu_tasks, draws_in_progress, next_id,
                   acks, view_invalidates,
                   invalidates_since_arrival, dchecks_on, aborted,
                   deferred_ever,
                   view_listener_binding_, rasterizer_deleted, messaging,
                   input_vars, thread_vars, text_view_vars>>

\* A precondition violation: OnFrameComplete is invoked although no frame is
\* outstanding (a completion continuation invoked for a frame that has
\* already completed).
SpuriousFrameComplete ==
    /\ Running /\ Idle
    /\ outstanding_requests_ = 0
    /\ pc' = <<"OnFrameComplete">>
    /\ log' = <<>>
    /\ UNCHANGED <<holder, alive, runtime_metrics, producer_calls, callback,
                   drain_callback, gpu_tasks, draws_in_progress, completions,
                   next_id, acks, view_invalidates,
                   invalidates_since_arrival, dchecks_on, aborted,
                   deferred_ever,
                   view_listener_binding_, rasterizer_deleted, messaging,
                   input_vars, thread_vars, text_view_vars>>

\* --------------------------------------------------------------------------
\* Platform messages
\* --------------------------------------------------------------------------
kAssetChannel == "flutter/assets"

kTextInputChannel == "flutter/textinput"

\* A platform message, by what its handlers look at: its channel, whether it
\* has a response object, whether the asset store finds the asset it names,
\* what its data parses to as JSON, the "method" member of the root object
\* and the "args" member.  An array is described by its elements.
Methods == {"TextInput.show", "TextInput.hide", "TextInput.setClient",
            "TextInput.setEditingState", "TextInput.clearClient",
            "TextInput.other"}

Message(channel, has_response, asset_found, document, method, args) ==
    [channel |-> channel, has_response |-> has_response,
     asset_found |-> asset_found, document |-> document, method |-> method,
     args |-> args]

Messages ==
    {Message(kAssetChannel, r, f, "parse_error", "missing", "missing") :
        r \in BOOLEAN, f \in BOOLEAN}
    \cup {Message("other", r, FALSE, "parse_error", "missing", "missing") :
        r \in BOOLEAN}
    \cup {Message(kTextInputChannel, r, FALSE, d, "missing", "missing") :
        r \in BOOLEAN, d \in {"parse_error", "not_object", "object"}}
    \cup {Message(kTextInputChannel, r, FALSE, "object", "not_string",
                  "missing") : r \in BOOLEAN}
    \cup {Message(kTextInputChannel, r, FALSE, "object", method, "missing") :
        r \in BOOLEAN, method \in Methods}
    \cup {Message(kTextInputChannel, r, FALSE, "object",
                  "TextInput.setClient", args) :
        r \in BOOLEAN,
        args \in {"object", "[int]", "[int, string]", "[int, object]",
                  "[string, object]"}}
    \cup {Message(kTextInputChannel, r, FALSE, "object",
                  "TextInput.setEditingState", args) :
        r \in BOOLEAN, args \in {"object", "[int, object]"}}

\* HandleAssetPlatformMessage: the completion it makes when the message has
\* a response object.
AssetResponse(m) == IF m.asset_found THEN "Complete" ELSE "CompleteEmpty"

\* HandleAssetPlatformMessage: its return value.
HandleAssetPlatformMessage(m) == m.has_response

\* HandleTextInputPlatformMessage: the document has an object root with a
\* string member "method".
HasMethod(m) ==
    m.document = "object" /\ m.method \notin {"missing", "not_string"}

\* TextInput.setClient: args is an array of two elements whose second is an
\* object.
SetClientArgs(m) == m.args \in {"[int, object]", "[string, object]"}

\* args->value[0].GetInt() on a value that is not an integer: rapidjson
\* asserts IsInt() in a build with assertions and otherwise returns
\* whatever the value's storage holds.
GetIntFails(m) ==
    /\ HasMethod(m)
    /\ m.method = "TextInput.setClient"
    /\ m.args = "[string, object]"

ArbitraryInts == {0, 1, 2}

\* HandleTextInputPlatformMessage: its return value.
HandleTextInputPlatformMessage(m) == FALSE

\* HandlePlatformMessage: the message was handled by the handler of its
\* channel.
Handled(m) ==
    \/ m.channel = kAssetChannel /\ HandleAssetPlatformMessage(m)
    \/ m.channel = kTextInputChannel /\ HandleTextInputPlatformMessage(m)

\* The completions of the message's response, in order.
ResponseEvents(m) ==
    (IF m.channel = kAssetChannel /\ m.has_response
     THEN <<AssetResponse(m)>> ELSE <<>>)
    \o (IF ~Handled(m) /\ m.has_response
        THEN <<"CompleteEmpty">> ELSE <<>>)

\* RuntimeHolder::HandlePlatformMessage with the handlers it calls.  The
\* runtime calls it inside a frame callback or while no handler executes.
HandlePlatformMessage(m) ==
    /\ Running
    /\ view_listener_binding_
    /\ IF Idle
       THEN UNCHANGED producer_calls
       ELSE /\ Top = "runtime_BeginFrame"
            /\ producer_calls < MaxProducerCalls
            /\ producer_calls' = producer_calls + 1
    /\ IF m.channel = kTextInputChannel /\ HasMethod(m)
          /\ m.method \in {"TextInput.setClient", "TextInput.clearClient"}
       THEN IF m.method = "TextInput.setClient" /\ SetClientArgs(m)
            THEN /\ input_method_editor_' = (dchecks_on => ~GetIntFails(m))
                 /\ IF GetIntFails(m)
                    THEN current_text_input_client_' \in
                            IF dchecks_on THEN {0} ELSE ArbitraryInts
                    ELSE current_text_input_client_' = 1
            ELSE /\ current_text_input_client_' = 0
                 /\ input_method_editor_' = FALSE
       ELSE UNCHANGED text_input
    /\ IF dchecks_on /\ m.channel = kTextInputChannel /\ GetIntFails(m)
       THEN /\ aborted' = TRUE
            /\ response' = <<>>
       ELSE /\ UNCHANGED aborted
            /\ response' = ResponseEvents(m)
    /\ UNCHANGED <<holder, alive, runtime_metrics, pc, callback,
                   drain_callback, gpu_tasks, draws_in_progress, completions,
                   next_id, acks, view_invalidates,
                   invalidates_since_arrival, dchecks_on, log,
                   deferred_ever, view_listener_binding_,
                   rasterizer_deleted,
                   input_vars, thread_vars, text_view_vars>>

\* The runtime sends a platform message.
PlatformMessage == \E m \in Messages : HandlePlatformMessage(m)

\* --------------------------------------------------------------------------
\* Teardown
\* --------------------------------------------------------------------------
\* A destructor that drops the callback it holds.
DestructorAcks_never == FALSE

\* ~RuntimeHolder: if (deferred_invalidation_callback_), the held callback
\* is invoked.
DestructorAcks == deferred_invalidation_callback_ # NoCallback

\* A destructor that deletes the rasterizer itself, on the control context.
RasterizerAfterDestructor_deletedInline == TRUE

\* ~RuntimeHolder moves rasterizer_ into the task it posts: the rasterizer
\* is not deleted by the destructor's own step.
RasterizerAfterDestructor == rasterizer_deleted

\* RuntimeHolder::~RuntimeHolder
Destructor ==
    /\ Running /\ Idle
    /\ gpu_tasks' = PostTask(gpu_tasks, DeleteRasterizerTask)
    /\ rasterizer_deleted' = RasterizerAfterDestructor
    /\ IF DestructorAcks
       THEN /\ acks' = Ack(deferred_invalidation_callback_)
            /\ log' = <<Event("ack", deferred_invalidation_callback_)>>
       ELSE /\ UNCHANGED acks
            /\ log' = <<>>
    /\ alive' = FALSE
    /\ UNCHANGED <<holder, runtime_metrics, producer_calls, pc, callback,
                   drain_callback, draws_in_progress, completions, next_id,
                   view_invalidates,
                   invalidates_since_arrival, dchecks_on, aborted,
                   deferred_ever,
                   view_listener_binding_, messaging,
                   input_vars, thread_vars, text_view_vars>>

\* --------------------------------------------------------------------------
\* Input events
\* --------------------------------------------------------------------------
Devices == 1..MaxDevices

\* mozart::PointerEvent::Phase
PointerPhases == {"ADD", "HOVER", "DOWN", "MOVE", "UP", "REMOVE", "CANCEL"}

\* mozart::KeyboardEvent::Phase
KeyboardPhases == {"PRESSED", "RELEASED", "CANCELLED", "REPEAT"}

\* The events the input connection delivers; time stamp, position and
\* pointer type are copied into the packet unchanged and are left out.
InputEvents ==
    [kind : {"pointer"}, phase : PointerPhases, device : Devices]
    \cup [kind : {"keyboard"}, phase : KeyboardPhases, device : {0}]

\* A conversion that takes CANCEL for REMOVE.
GetChangeFromPointerEventPhase_cancelAsRemove(phase) ==
    CASE phase = "ADD" -> "kAdd"
      [] phase = "HOVER" -> "kHover"
      [] phase = "DOWN" -> "kDown"
      [] phase = "MOVE" -> "kMove"
      [] phase = "UP" -> "kUp"
      [] phase = "REMOVE" -> "kRemove"
      [] phase = "CANCEL" -> "kRemove"
      [] OTHER -> "kCancel"

GetChangeFromPointerEventPhase(phase) ==
    CASE phase = "ADD" -> "kAdd"
      [] phase = "HOVER" -> "kHover"
      [] phase = "DOWN" -> "kDown"
      [] phase = "MOVE" -> "kMove"
      [] phase = "UP" -> "kUp"
      [] phase = "REMOVE" -> "kRemove"
      [] phase = "CANCEL" -> "kCancel"
      [] OTHER -> "kCancel"

\* OnEvent: the switch on pointer_data.change, the set of down pointers
\* after it.
DownPointersAfter(change, device) ==
    CASE change = "kDown" -> down_pointers_ \cup {device}
      [] change \in {"kCancel", "kUp"} -> down_pointers_ \ {device}
      [] OTHER -> down_pointers_

\* OnEvent: the switch on pointer_data.change, the change dispatched.
ChangeDispatched(change, device) ==
    IF change = "kMove" /\ device \notin down_pointers_
    THEN "kHover"
    ELSE change

\* OnEvent: FTL_DCHECK(down_pointers_.count(pointer_data.device) == 0)
PointerCheckFails(change, device) ==
    /\ dchecks_on
    /\ change \in {"kAdd", "kRemove", "kHover"}
    /\ device \in down_pointers_

\* OnEvent: the key event type, "null" where type stays nullptr.
KeyEventType(phase) ==
    CASE phase = "PRESSED" -> "keydown"
      [] phase = "REPEAT" -> "keydown"
      [] phase = "RELEASED" -> "keyup"
      [] OTHER -> "null"

NoDispatch == [kind |-> "none", change |-> "none", device |-> 0]

\* RuntimeHolder::OnEvent
OnEvent(event) ==
    /\ Running /\ Idle
    /\ view_listener_binding_
    /\ Len(events) < MaxEvents
    /\ events' = Append(events, event)
    /\ IF event.kind = "pointer"
       THEN LET change == GetChangeFromPointerEventPhase(event.phase) IN
            IF PointerCheckFails(change, event.device)
            THEN /\ aborted' = TRUE
                 /\ dispatched' = NoDispatch
                 /\ event_callbacks' = <<>>
                 /\ UNCHANGED down_pointers_
            ELSE /\ down_pointers_' = DownPointersAfter(change, event.device)
                 /\ dispatched' =
                        [kind |-> "pointer",
                         change |-> ChangeDispatched(change, event.device),
                         device |-> event.device]
                 /\ event_callbacks' = <<TRUE>>
                 /\ UNCHANGED aborted
       ELSE /\ dispatched' =
                   IF KeyEventType(event.phase) # "null"
                   THEN [kind |-> "keyboard",
                         change |-> KeyEventType(event.phase), device |-> 0]
                   ELSE NoDispatch
            /\ event_callbacks' = <<KeyEventType(event.phase) # "null">>
            /\ UNCHANGED <<down_pointers_, aborted>>
    /\ UNCHANGED <<frame_pipeline, dchecks_on, thread_vars, text_view_vars>>

\* The input connection delivers an event.
InputEvent == \E event \in InputEvents : OnEvent(event)

\* --------------------------------------------------------------------------
\* fml::Thread (src/unnamed/part_000)
\* --------------------------------------------------------------------------
\* owner is the position of the thread that constructs, uses and destroys
\* the Thread object; thread_ is what the started thread has left to do.
\* A thread body that signals the latch before it has published the runner.
ThreadBody_signalFirst ==
    <<"SetCurrentThreadName", "EnsureInitializedForCurrentThread", "Signal",
      "GetTaskRunner", "Run">>

\* Thread::Thread: the statements of the lambda the new thread runs.
ThreadBody ==
    <<"SetCurrentThreadName", "EnsureInitializedForCurrentThread",
      "GetTaskRunner", "Signal", "Run">>

\* A write to latch or runner is a write to the constructor's stack frame,
\* which is gone once the constructor has returned.
StaleWrite == IF owner = "latch.Wait" THEN 0 ELSE 1

\* Thread::Thread up to latch.Wait(): joined_(false), the locals, the thread.
Thread_construct ==
    /\ ~aborted
    /\ owner = "start"
    /\ joined_' = FALSE
    /\ latch' = FALSE
    /\ runner' = "null"
    /\ thread_' = ThreadBody
    /\ owner' = "latch.Wait"
    /\ UNCHANGED <<task_runner_, loop_tasks, join_calls, terminate_posts,
                   thread_joins, stale_writes, frame_pipeline, dchecks_on,
                   aborted, input_vars, text_view_vars>>

\* Thread::Thread: latch.Wait() returns (the event resets itself) and
\* task_runner_ = runner.
Thread_return ==
    /\ ~aborted
    /\ owner = "latch.Wait"
    /\ latch
    /\ latch' = FALSE
    /\ task_runner_' = runner
    /\ owner' = "idle"
    /\ UNCHANGED <<thread_, runner, joined_, loop_tasks, join_calls,
                   terminate_posts, thread_joins, stale_writes,
                   frame_pipeline, dchecks_on, aborted, input_vars,
                   text_view_vars>>

\* The new thread: SetCurrentThreadName(name) and
\* MessageLoop::EnsureInitializedForCurrentThread().
ThreadSetup ==
    /\ ~aborted
    /\ Head(thread_) \in {"SetCurrentThreadName",
                          "EnsureInitializedForCurrentThread"}
    /\ thread_' = Tail(thread_)
    /\ UNCHANGED <<owner, latch, runner, task_runner_, joined_, loop_tasks,
                   join_calls, terminate_posts, thread_joins, stale_writes,
                   frame_pipeline, dchecks_on, aborted, input_vars,
                   text_view_vars>>

\* The new thread: runner = loop.GetTaskRunner().
ThreadPublish ==
    /\ ~aborted
    /\ Head(thread_) = "GetTaskRunner"
    /\ runner' = "task_runner"
    /\ stale_writes' = stale_writes + StaleWrite
    /\ thread_' = Tail(thread_)
    /\ UNCHANGED <<owner, latch, task_runner_, joined_, loop_tasks,
                   join_calls, terminate_posts, thread_joins, frame_pipeline,
                   dchecks_on, aborted, input_vars, text_view_vars>>

\* The new thread: latch.Signal().
ThreadSignal ==
    /\ ~aborted
    /\ Head(thread_) = "Signal"
    /\ latch' = TRUE
    /\ stale_writes' = stale_writes + StaleWrite
    /\ thread_' = Tail(thread_)
    /\ UNCHANGED <<owner, runner, task_runner_, joined_, loop_tasks,
                   join_calls, terminate_posts, thread_joins, frame_pipeline,
                   dchecks_on, aborted, input_vars, text_view_vars>>

\* The new thread: loop.Run() runs the task at the head of the queue; the
\* Terminate task ends the loop and with it the thread.
ThreadRunTask ==
    /\ ~aborted
    /\ Head(thread_) = "Run"
    /\ loop_tasks # <<>>
    /\ loop_tasks' = Tail(loop_tasks)
    /\ thread_' = IF Head(loop_tasks) = "Terminate"
                  THEN <<"exited">> ELSE thread_
    /\ UNCHANGED <<owner, latch, runner, task_runner_, joined_, join_calls,
                   terminate_posts, thread_joins, stale_writes,
                   frame_pipeline, dchecks_on, aborted, input_vars,
                   text_view_vars>>

\* Thread::GetTaskRunner
GetTaskRunner == task_runner_

\* A task is posted through GetTaskRunner(), by the owner between its calls
\* or by another thread while the owner is in Join; a null task runner ends
\* the process.
ThreadPostTask ==
    /\ ~aborted
    /\ owner \in {"idle", "thread_->join", "~Thread: thread_->join"}
    /\ Len(loop_tasks) < MaxQueued
    /\ IF GetTaskRunner = "null"
       THEN /\ aborted' = TRUE
            /\ UNCHANGED loop_tasks
       ELSE /\ loop_tasks' = Append(loop_tasks, "task")
            /\ UNCHANGED aborted
    /\ UNCHANGED <<owner, thread_, latch, runner, task_runner_, joined_,
                   join_calls, terminate_posts, thread_joins, stale_writes,
                   frame_pipeline, dchecks_on, input_vars, text_view_vars>>

\* A Join that never finds the thread joined.
AlreadyJoined_never == FALSE

\* Thread::Join: if (joined_) return.
AlreadyJoined == joined_

\* Thread::Join up to thread_->join(); waiting is the position the owner
\* takes while the underlying thread is joined, done the one it takes when
\* Join returns at once.
Join(waiting, done) ==
    IF AlreadyJoined
    THEN /\ owner' = done
         /\ UNCHANGED <<joined_, loop_tasks, terminate_posts>>
    ELSE /\ joined_' = TRUE
         /\ loop_tasks' = Append(loop_tasks, "Terminate")
         /\ terminate_posts' = terminate_posts + 1
         /\ owner' = waiting

\* The owner calls Join.
ThreadJoin ==
    /\ ~aborted
    /\ owner = "idle"
    /\ join_calls < MaxJoinCalls
    /\ join_calls' = join_calls + 1
    /\ Join("thread_->join", "idle")
    /\ UNCHANGED <<thread_, latch, runner, task_runner_, thread_joins,
                   stale_writes, frame_pipeline, dchecks_on, aborted,
                   input_vars, text_view_vars>>

\* Thread::~Thread calls Join.
ThreadDestructor ==
    /\ ~aborted
    /\ owner = "idle"
    /\ Join("~Thread: thread_->join", "destroyed")
    /\ UNCHANGED <<thread_, latch, runner, task_runner_, join_calls,
                   thread_joins, stale_writes, frame_pipeline, dchecks_on,
                   aborted, input_vars, text_view_vars>>

\* Thread::Join: thread_->join() returns once the thread has ended.
Join_return ==
    /\ ~aborted
    /\ owner \in {"thread_->join", "~Thread: thread_->join"}
    /\ thread_ = <<"exited">>
    /\ thread_joins' = thread_joins + 1
    /\ owner' = IF owner = "thread_->join" THEN "idle" ELSE "destroyed"
    /\ UNCHANGED <<thread_, latch, runner, task_runner_, joined_, loop_tasks,
                   join_calls, terminate_posts, stale_writes, frame_pipeline,
                   dchecks_on, aborted, input_vars, text_view_vars>>

\* --------------------------------------------------------------------------
\* FlutterTextInputView (src/unnamed/part_000)
\* --------------------------------------------------------------------------
\* The text is a sequence of UTF-16 units: "a" is a character of one unit,
\* "H" and "L" are the high and low half of a surrogate pair.
Units == {"a", "H", "L"}

Texts == UNION {[1..n -> Units] : n \in 0..MaxTextLen}

\* An NSUInteger is 64 bits wide. A value is held as the integer nearest to
\* zero in its residue class modulo 2^64: k stands for k and -k for
\* 2^64 - k, so that sums and differences of values near zero are exact and
\* a difference below zero is the wrapped value it is in the code.
ULess(a, b) == IF (a < 0) = (b < 0) THEN a < b ELSE b < 0

ULessEq(a, b) == a = b \/ ULess(a, b)

\* MIN and MAX of two NSUInteger values.
UMin(a, b) == IF ULess(a, b) THEN a ELSE b

UMax(a, b) == IF ULess(a, b) THEN b ELSE a

\* MIN and MAX of two NSInteger values.
MIN(a, b) == IF a < b THEN a ELSE b

MAX(a, b) == IF a > b THEN a ELSE b

NSMakeRange(location, length) == [location |-> location, length |-> length]

NSMaxRange(range) == range.location + range.length

\* Foundation's NSIntersectionRange; of a range without intersection only
\* the length, 0, is specified.
NSIntersectionRange(range1, range2) ==
    IF \/ ULessEq(NSMaxRange(range1), range2.location)
       \/ ULessEq(NSMaxRange(range2), range1.location)
    THEN NSMakeRange(0, 0)
    ELSE LET location == UMax(range1.location, range2.location) IN
             NSMakeRange(location,
                         UMin(NSMaxRange(range1), NSMaxRange(range2))
                             - location)

\* The selection lies within the text.
SelectionWithinText ==
    /\ selectedTextRange.location \in 0..Len(text)
    /\ selectedTextRange.length \in 0..(Len(text) - selectedTextRange.location)

\* setTextInputState: the text is replaced and the selection is base and
\* extent, ordered and clamped to the text.
setTextInputState(newText, selectionBase, selectionExtent) ==
    LET length == Len(newText)
        start == MIN(MAX(0, MIN(selectionBase, selectionExtent)), length)
        end == MIN(MAX(0, MAX(selectionBase, selectionExtent)), length)
    IN  /\ ~aborted
        /\ text' = newText
        /\ selectedTextRange' = NSMakeRange(start, end - start)
        /\ UNCHANGED <<position, frame_pipeline, dchecks_on, aborted,
                       input_vars, thread_vars>>

\* The framework sends an editing state.
FrameworkSetsState ==
    \E newText \in Texts :
        \E selectionBase, selectionExtent \in -1..(MaxTextLen + 1) :
            setTextInputState(newText, selectionBase, selectionExtent)

\* NSMutableString replaceCharactersInRange:withString:
replaceCharactersInRange(string, range, withString) ==
    SubSeq(string, 1, range.location) \o withString
        \o SubSeq(string, NSMaxRange(range) + 1, Len(string))

\* replaceRange:withText: the selected range after the adjustment.
AdjustedSelection(replaceRange, selectedRange, withText) ==
    LET intersectionRange == NSIntersectionRange(replaceRange, selectedRange)
        shifted ==
            IF ULessEq(replaceRange.location, selectedRange.location)
            THEN selectedRange.location
                     + (Len(withText) - replaceRange.length)
            ELSE selectedRange.location
    IN  NSMakeRange(shifted + intersectionRange.length,
                    selectedRange.length - intersectionRange.length)

\* replaceRange:withText:, called with a range within the text while the
\* selection is within the text.
replaceRange(range, withText) ==
    /\ ~aborted
    /\ SelectionWithinText
    /\ NSMaxRange(range) <= Len(text)
    /\ Len(text) - range.length + Len(withText) <= MaxTextLen
    /\ selectedTextRange' =
           AdjustedSelection(range, selectedTextRange, withText)
    /\ text' = replaceCharactersInRange(text, range, withText)
    /\ UNCHANGED <<position, frame_pipeline, dchecks_on, aborted,
                   input_vars, thread_vars>>

\* The keyboard replaces a range of the text.
KeyboardReplaces ==
    \E range \in [location : 0..MaxTextLen, length : 0..MaxTextLen] :
        \E withText \in Texts :
            replaceRange(range, withText)

\* NSString rangeOfComposedCharacterSequenceAtIndex: a surrogate pair is one
\* character of two units.
rangeOfComposedCharacterSequenceAtIndex(index) ==
    IF /\ text[index + 1] = "H"
       /\ index + 2 <= Len(text)
       /\ text[index + 2] = "L"
    THEN NSMakeRange(index, 2)
    ELSE IF /\ text[index + 1] = "L"
            /\ index >= 1
            /\ text[index] = "H"
         THEN NSMakeRange(index - 1, 2)
         ELSE NSMakeRange(index, 1)

\* rangeForCharacterAtIndex: the range of the composed character is
\* computed and not returned; the method returns NSMakeRange(index, 0).
rangeForCharacterAtIndex(index) ==
    LET discarded ==
            IF ULess(index, Len(text))
            THEN rangeOfComposedCharacterSequenceAtIndex(index)
            ELSE NSMakeRange(index, 0)
    IN  NSMakeRange(index, 0)

decrementOffsetPosition(p) ==
    rangeForCharacterAtIndex(UMax(0, p - 1)).location

incrementOffsetPosition(p) ==
    UMin(p + rangeForCharacterAtIndex(p).length, Len(text))

\* positionFromPosition:offset:, the loop for offset >= 0 from count i on.
RECURSIVE Forward(_, _, _)
Forward(offsetPosition, i, offset) ==
    IF i < offset /\ ULess(offsetPosition, Len(text))
    THEN Forward(incrementOffsetPosition(offsetPosition), i + 1, offset)
    ELSE offsetPosition

\* positionFromPosition:offset:, the loop for offset < 0 from count i on.
RECURSIVE Backward(_, _, _)
Backward(offsetPosition, i, offset) ==
    IF i < -offset /\ ULess(0, offsetPosition)
    THEN Backward(decrementOffsetPosition(offsetPosition), i + 1, offset)
    ELSE offsetPosition

\* positionFromPosition:offset:; position records the call and its result.
positionFromPosition(from, offset) ==
    /\ ~aborted
    /\ from \in 0..Len(text)
    /\ position' =
           [text |-> text, from |-> from, offset |-> offset,
            index |-> IF offset >= 0
                      THEN Forward(from, 0, offset)
                      ELSE Backward(from, 0, offset)]
    /\ UNCHANGED <<text, selectedTextRange, frame_pipeline, dchecks_on,
                   aborted, input_vars, thread_vars>>

\* The keyboard asks for the position at an offset from a position.
KeyboardMovesPosition ==
    \E from \in 0..MaxTextLen :
        \E offset \in (-MaxOffset)..MaxOffset :
            positionFromPosition(from, offset)

\* --------------------------------------------------------------------------
\* Specifications
\* --------------------------------------------------------------------------
ControlStep ==
    \/ OnInvalidation_callback
    \/ BeginFrame
    \/ ProducerRender
    \/ ProducerScheduleFrame
    \/ BeginFrame_return
    \/ OnFrameComplete
    \/ OnFrameComplete_drain
    \/ OnFrameComplete_ScheduleFrame
    \/ OnFrameComplete_callback
    \/ RuntimeScheduleFrame
    \/ RuntimeRender
    \/ DrawCompletion
    \/ ViewCreation
    \/ Destructor

GpuStep ==
    \/ GpuRunTask
    \/ RasterizerDrawComplete

\* The bridge keeps its protocol: one unacknowledged invalidation at a time.
Next ==
    \/ ViewInvalidation
    \/ ControlStep
    \/ GpuStep

Spec == Init /\ [][Next]_vars

\* The bridge may also send an invalidation before the previous one was
\* acknowledged.
NextAnyBridge ==
    \/ ViewInvalidation
    \/ ViewInvalidationUnacknowledged
    \/ ControlStep
    \/ GpuStep

SpecAnyBridge == Init /\ [][NextAnyBridge]_vars

\* OnFrameComplete may also be invoked with no frame outstanding.
NextSpuriousComplete ==
    \/ ViewInvalidation
    \/ SpuriousFrameComplete
    \/ ControlStep
    \/ GpuStep

SpecSpuriousComplete == Init /\ [][NextSpuriousComplete]_vars

\* The GPU context runs no task: the steps the control context can take.
StalledStep ==
    \/ ViewCreation
    \/ ViewInvalidation
    \/ OnInvalidation_callback
    \/ BeginFrame
    \/ ProducerRender
    \/ ProducerScheduleFrame
    \/ BeginFrame_return
    \/ OnFrameComplete
    \/ OnFrameComplete_drain
    \/ RuntimeScheduleFrame
    \/ RuntimeRender
    \/ Destructor

\* The runtime also sends platform messages, and the GPU context runs no
\* task.
NextMessages ==
    \/ PlatformMessage
    \/ StalledStep

SpecMessages == Init /\ [][NextMessages]_vars

\* The controller is never torn down, and every task posted to a context is
\* run: the GPU context runs the tasks of its queue and finishes the draws
\* it has started, the control context runs the completions posted to it,
\* and a handler that has started runs to its end (the frame callback
\* returns).
HandlerStep ==
    \/ OnInvalidation_callback
    \/ BeginFrame
    \/ BeginFrame_return
    \/ OnFrameComplete
    \/ OnFrameComplete_drain
    \/ OnFrameComplete_ScheduleFrame
    \/ OnFrameComplete_callback

NextLive ==
    \/ ViewCreation
    \/ ViewInvalidation
    \/ HandlerStep
    \/ ProducerRender
    \/ ProducerScheduleFrame
    \/ RuntimeScheduleFrame
    \/ RuntimeRender
    \/ DrawCompletion
    \/ GpuStep

Fairness ==
    /\ WF_vars(HandlerStep)
    /\ WF_vars(GpuRunTask)
    /\ WF_vars(RasterizerDrawComplete)
    /\ SF_vars(DrawCompletion)

SpecLive == Init /\ [][NextLive]_vars /\ Fairness

\* The view is created and receives input events.
NextInput ==
    \/ ViewCreation
    \/ InputEvent

SpecInput == Init /\ [][NextInput]_vars

\* The text input view: editing states, replacements, positions.
NextTextView ==
    \/ FrameworkSetsState
    \/ KeyboardReplaces
    \/ KeyboardMovesPosition

SpecTextView == Init /\ [][NextTextView]_vars

\* fml::Thread: construction, tasks, calls of Join, destruction.
NextThread ==
    \/ Thread_construct
    \/ Thread_return
    \/ ThreadSetup
    \/ ThreadPublish
    \/ ThreadSignal
    \/ ThreadRunTask
    \/ ThreadPostTask
    \/ ThreadJoin
    \/ ThreadDestructor
    \/ Join_return

SpecThread == Init /\ [][NextThread]_vars

\* --------------------------------------------------------------------------
\* Properties
\* --------------------------------------------------------------------------
InStack(label) == \E k \in 1..Len(pc) : pc[k] = label

\* The invalidations OnInvalidation has accepted so far.
Accepted == 1..(next_id - 1)

\* A step of OnInvalidation's entry: only it advances next_id.
OnInvalidationStep == next_id' # next_id

\* C1: the pipeline depth counter outstanding_requests_ is between 0 and 3
\* in every reachable state, the states inside OnInvalidation, BeginFrame
\* and OnFrameComplete included, whatever the bridge, the producer and the
\* backend do.
C1_DepthInRange ==
    /\ outstanding_requests_ >= 0
    /\ outstanding_requests_ <= 3

\* The pipeline is saturated with a request held, and a completion is about
\* to release a unit of depth.
C1_Witness ==
    /\ outstanding_requests_ = 3
    /\ deferred_invalidation_callback_ # NoCallback
    /\ Top = "OnFrameComplete"

\* Invalidation i is still held by the controller: in the deferred slot, or
\* in a handler that has not yet reached its callback().
Held(i) ==
    /\ alive
    /\ \/ deferred_invalidation_callback_ = i
       \/ callback = i /\ InStack("OnInvalidation_callback")
       \/ drain_callback = i /\ InStack("OnFrameComplete_callback")

\* C2: every accepted invalidation is acknowledged exactly once: not at all
\* while the controller holds it, once from then on, never twice; after the
\* destructor has run every accepted invalidation has been acknowledged once.
C2_AckExactlyOnce ==
    \A i \in Accepted : acks[i] = IF Held(i) THEN 0 ELSE 1

\* The controller is gone, one request went through the deferred slot and
\* was drained by OnFrameComplete, and all five requests are acknowledged.
C2_Witness ==
    /\ ~alive
    /\ next_id > 4
    /\ deferred_ever # {}
    /\ deferred_invalidation_callback_ = NoCallback
    /\ \A i \in Accepted : acks[i] = 1

\* C3: OnInvalidation called with depth >= 3 stores the callback in the
\* deferred slot, does not invoke it, begins no frame and leaves the depth
\* unchanged.
C3_DeferredPath ==
    [][(OnInvalidationStep /\ outstanding_requests_ >= 3)
         => /\ deferred_invalidation_callback_' = next_id
            /\ acks' = acks
            /\ outstanding_requests_' = outstanding_requests_
            /\ pc' = <<>>
            /\ Count(log', "BeginFrame") = 0
            /\ Count(log', "ack") = 0
            /\ gpu_tasks' = gpu_tasks]_vars

\* An invalidation has just been stored at depth 3.
C3_Witness ==
    /\ Idle
    /\ outstanding_requests_ = 3
    /\ deferred_invalidation_callback_ # NoCallback
    /\ Count(log, "defer") = 1
    /\ acks[deferred_invalidation_callback_] = 0

\* The log is that of an OnInvalidation that took the immediate path.
ImmediateLog ==
    /\ log # <<>>
    /\ log[1].ev = "OnInvalidation"
    /\ Count(log, "defer") = 0

\* Position of the event that ends BeginFrame in the log, 0 when none.
BeginFrameEnd ==
    IF Index(log, "BeginFrame_return") # 0
    THEN Index(log, "BeginFrame_return")
    ELSE IF Index(log, "BeginFrame_empty") # 0
         THEN (IF Index(log, "drain") # 0
               THEN (IF Index(log, "ack") # 0 THEN Index(log, "ack") ELSE 0)
               ELSE Index(log, "OnFrameComplete"))
         ELSE 0

\* C4, at the return of OnInvalidation on the immediate path: BeginFrame
\* was invoked once, the request's callback once, and the callback is the
\* last event, after the end of BeginFrame and all the producer did.
C4_AtReturn ==
    (Idle /\ alive /\ ~aborted /\ ImmediateLog)
      => /\ Count(log, "BeginFrame") = 1
         /\ acks[log[1].id] = 1
         /\ log[Len(log)] = Event("ack", log[1].id)
         /\ BeginFrameEnd # 0
         /\ BeginFrameEnd < Len(log)
         /\ Index(log, "BeginFrame") < BeginFrameEnd
         /\ \A k \in 1..Len(log) :
               log[k].ev \in {"PostDraw", "Invalidate"} => k < BeginFrameEnd

\* C4, inside OnInvalidation on the immediate path: the request is not
\* acknowledged while BeginFrame is still to run or running.
C4_NotBefore ==
    (InStack("BeginFrame") \/ InStack("runtime_BeginFrame")
        \/ InStack("OnFrameComplete"))
      => (ImmediateLog => acks[log[1].id] = 0)

\* C4: OnInvalidation called with depth < 3 increments the depth, invokes
\* BeginFrame exactly once and the request's callback exactly once, the
\* callback after BeginFrame (with the producer's frame callback and any
\* Render) has returned and before OnInvalidation returns.
C4_ImmediatePath ==
    /\ [](C4_AtReturn /\ C4_NotBefore)
    /\ [][(OnInvalidationStep /\ outstanding_requests_ < 3)
            => /\ outstanding_requests_' = outstanding_requests_ + 1
               /\ pc' # <<>>
               /\ acks' = acks]_vars

\* OnInvalidation returned on the immediate path after the producer
\* submitted a scene.
C4_Witness ==
    /\ Idle
    /\ ImmediateLog
    /\ Count(log, "PostDraw") = 1
    /\ Count(log, "ack") = 1

\* OnInvalidation has returned on the immediate path, and it was called at
\* depth 0.
ReturnedFromDepth0 ==
    /\ Idle /\ alive /\ ~aborted
    /\ ImmediateLog
    /\ log[1].depth = 0
    /\ log[Len(log)].ev = "ack"

\* C5 as stated: an invalidation arriving at depth 0 leaves depth 1 when
\* OnInvalidation returns, whatever the producer did in the frame callback.
C5_Original == ReturnedFromDepth0 => outstanding_requests_ = 1

\* C5: an invalidation arriving at depth 0 leaves, when OnInvalidation
\* returns, depth 1 if the producer submitted a scene through Render and
\* depth 0 if it submitted nothing (the empty frame is completed by
\* BeginFrame itself).
C5_DepthAfterScenarioA ==
    ReturnedFromDepth0
      => outstanding_requests_ = IF Count(log, "PostDraw") = 1 THEN 1 ELSE 0

\* OnInvalidation returned from depth 0 after an empty frame.
C5_Witness ==
    /\ ReturnedFromDepth0
    /\ Count(log, "PostDraw") = 0
    /\ outstanding_requests_ = 0

\* The log is that of an OnFrameComplete run for a draw completion; its
\* first event carries the depth before the decrement.
CompletionLog ==
    /\ log # <<>>
    /\ log[1].ev = "OnFrameComplete"

\* C6: OnFrameComplete acknowledges a deferred invalidation only when its
\* decrement leaves depth <= 1; with the slot occupied, the completion that
\* takes the depth from 3 to 2 neither acknowledges the request nor empties
\* the slot, and the completion that takes it to 1 drains the slot.
C6_Hysteresis ==
    /\ [][(/\ Top = "OnFrameComplete_drain"
           /\ deferred_invalidation_callback_ # NoCallback
           /\ pc' # pc)
            => IF outstanding_requests_ <= 1
               THEN /\ deferred_invalidation_callback_' = NoCallback
                    /\ drain_callback' = deferred_invalidation_callback_
               ELSE /\ UNCHANGED deferred_invalidation_callback_
                    /\ pc' = Tail(pc)
                    /\ acks' = acks]_vars
    /\ [][(acks' # acks /\ Top = "OnFrameComplete_callback")
            => outstanding_requests_ <= 1]_vars
    /\ []((Idle /\ alive /\ CompletionLog)
            => /\ log[1].depth = 3
                    => Count(log, "drain") = 0 /\ Count(log, "ack") = 0
               /\ Count(log, "ack") = 1
                    => /\ outstanding_requests_ <= 1
                       /\ deferred_invalidation_callback_ = NoCallback)

\* The completion that took the depth from 2 to 1 has drained the slot and
\* acknowledged the deferred request.
C6_Witness ==
    /\ Idle /\ alive
    /\ CompletionLog
    /\ log[1].depth = 2
    /\ outstanding_requests_ = 1
    /\ Count(log, "ack") = 1
    /\ deferred_ever # {}

\* C7: a drain in OnFrameComplete first empties the slot, then issues the
\* schedule-frame signal (view_->Invalidate()), and only then invokes the
\* deferred request's callback.
C7_DrainOrder ==
    /\ (Top \in {"OnFrameComplete_ScheduleFrame", "OnFrameComplete_callback"}
          => deferred_invalidation_callback_ = NoCallback)
    /\ \A k \in 1..Len(log) :
          /\ log[k].ev = "drain"
               => /\ k + 1 <= Len(log) => log[k + 1].ev = "Invalidate"
                  /\ k + 2 <= Len(log) => log[k + 2] = Event("ack", log[k].id)
                  /\ k + 2 > Len(log) => acks[log[k].id] = 0
          /\ (log[k].ev = "ack" /\ CompletionLog)
               => /\ k > 2
                  /\ log[k - 1].ev = "Invalidate"
                  /\ log[k - 2].ev = "drain"

\* A drain has completed: slot emptied, Invalidate sent, callback invoked.
C7_Witness ==
    /\ Idle /\ alive
    /\ CompletionLog
    /\ Len(log) = 4
    /\ log[4].ev = "ack"
    /\ pending_invalidation_

\* C8 as stated: an OnInvalidation that arrives at depth >= 3 while the
\* deferred slot is occupied leaves the earlier request's callback in the
\* slot.
C8_NeverReplaced ==
    [][(/\ OnInvalidationStep
        /\ outstanding_requests_ >= 3
        /\ deferred_invalidation_callback_ # NoCallback)
         => UNCHANGED deferred_invalidation_callback_]_vars

\* C9 as stated: the deferred slot is non-empty only if depth >= 3.
C9_Original ==
    (alive /\ deferred_invalidation_callback_ # NoCallback)
      => outstanding_requests_ >= 3

\* C9: a request enters the deferred slot only at depth >= 3, and the slot
\* is non-empty only if depth >= 2, except inside OnFrameComplete between
\* its decrement and its recovery test.
C9_SlotAboveRecovery ==
    /\ []((/\ alive
           /\ deferred_invalidation_callback_ # NoCallback
           /\ Top # "OnFrameComplete_drain")
            => outstanding_requests_ >= 2)
    /\ [][(/\ deferred_invalidation_callback_' # deferred_invalidation_callback_
           /\ deferred_invalidation_callback_' # NoCallback)
            => outstanding_requests_ >= 3]_vars

\* A completion has taken the depth to 2 and the request is still held.
C9_Witness ==
    /\ Idle /\ alive
    /\ deferred_invalidation_callback_ # NoCallback
    /\ outstanding_requests_ = 2

\* C10: when the producer's frame callback returns without an effective
\* Render, BeginFrame invokes OnFrameComplete itself, exactly once, posts
\* no Draw, and the frame's unit of depth is released before BeginFrame
\* returns.
C10_EmptyFrame ==
    /\ [][(/\ Top = "runtime_BeginFrame"
           /\ is_ready_to_draw_
           /\ Top' # "runtime_BeginFrame")
            => /\ Top' = "OnFrameComplete"
               /\ gpu_tasks' = gpu_tasks
               /\ ~is_ready_to_draw_']_vars
    /\ []((/\ alive /\ ~aborted
           /\ ImmediateLog
           /\ Top \in {"OnInvalidation_callback", "idle"}
           /\ Count(log, "PostDraw") = 0)
            => /\ Count(log, "OnFrameComplete") = 1
               /\ Count(log, "BeginFrame_empty") = 1
               /\ outstanding_requests_ = log[1].depth)

\* BeginFrame has returned from an empty frame and OnInvalidation is about
\* to acknowledge.
C10_Witness ==
    /\ Top = "OnInvalidation_callback"
    /\ Count(log, "BeginFrame_empty") = 1
    /\ Count(log, "OnFrameComplete") = 1
    /\ Len(gpu_tasks) = 0
    /\ outstanding_requests_ = 0

\* A step that is a call of Render, from the frame callback or outside it.
RenderCall == ProducerRender \/ RuntimeRender

\* C11: Render called while the ready-to-draw flag is false posts no Draw
\* and leaves depth, deferred slot, pending flag, ready flag and scene
\* version unchanged; so at most one scene is posted per BeginFrame.
C11_RenderNoOp ==
    /\ [][(RenderCall /\ ~is_ready_to_draw_)
            => UNCHANGED <<gpu_tasks, draws_in_progress,
                           outstanding_requests_,
                           deferred_invalidation_callback_,
                           pending_invalidation_, is_ready_to_draw_,
                           scene_version_, viewport_metrics_>>]_vars
    /\ [](Count(log, "PostDraw") <= Count(log, "BeginFrame"))

\* The producer has called Render twice in one frame callback and one Draw
\* task was posted.
C11_Witness ==
    /\ Top = "runtime_BeginFrame"
    /\ Count(log, "Render") = 2
    /\ Count(log, "PostDraw") = 1
    /\ Len(gpu_tasks) = 1

\* C12: a completion continuation that runs after the controller has been
\* destroyed finds the weak pointer dead and does nothing: OnFrameComplete
\* is not called and no field of the controller changes.
C12_DeadCompletion ==
    [][(completions' < completions /\ ~alive)
         => UNCHANGED <<holder, pc, callback, drain_callback, acks, log,
                        view_invalidates, gpu_tasks>>]_vars

\* The controller was destroyed with draws in flight (its depth was not 0)
\* and every completion continuation has run since.
C12_Witness ==
    /\ ~alive
    /\ outstanding_requests_ > 0
    /\ gpu_tasks = <<>>
    /\ draws_in_progress = 0
    /\ completions = 0

\* A step that is a call of ScheduleFrame.
ScheduleFrameCall ==
    \/ ProducerScheduleFrame
    \/ RuntimeScheduleFrame
    \/ OnFrameComplete_ScheduleFrame

\* C13: ScheduleFrame does nothing when the pending flag is set or the
\* deferred slot is occupied, and otherwise sets the flag and notifies the
\* bridge once; the bridge receives at most one Invalidate between two
\* consecutive arrivals of OnInvalidation.
C13_ScheduleFrameOnce ==
    /\ [][ScheduleFrameCall
            => IF \/ pending_invalidation_
                  \/ deferred_invalidation_callback_ # NoCallback
               THEN UNCHANGED <<pending_invalidation_, view_invalidates>>
               ELSE /\ pending_invalidation_'
                    /\ view_invalidates' = view_invalidates + 1]_vars
    /\ [](invalidates_since_arrival <= 1)

\* The producer has called ScheduleFrame twice in one frame callback (no
\* call of Render is logged) and the bridge was notified once.
C13_Witness ==
    /\ Top = "runtime_BeginFrame"
    /\ producer_calls = 2
    /\ Count(log, "Render") = 0
    /\ Count(log, "Invalidate") = 1
    /\ invalidates_since_arrival = 1

\* C14: the pending-invalidation flag is set only by an effective
\* ScheduleFrame, and it is cleared by the arrival of the next
\* OnInvalidation, and only by it, on the immediate and on the deferred
\* path.
C14_PendingFlag ==
    /\ [][(~pending_invalidation_ /\ pending_invalidation_')
            => /\ ScheduleFrameCall
               /\ view_invalidates' = view_invalidates + 1]_vars
    /\ [][OnInvalidationStep => ~pending_invalidation_']_vars
    /\ [][(pending_invalidation_ /\ ~pending_invalidation_')
            => OnInvalidationStep]_vars

\* The fourth invalidation has just been deferred and the flag is clear,
\* while the bridge was notified four times: at most one notification falls
\* between two arrivals and none after the deferral, so one fell between
\* the third and the fourth arrival and the flag was set when the fourth
\* arrived.
C14_Witness ==
    /\ Idle
    /\ Count(log, "defer") = 1
    /\ next_id = 5
    /\ view_invalidates = 4
    /\ ~pending_invalidation_

\* C15: an invalidation that carries viewport metrics replaces the
\* controller's metrics and hands them to the producer, on the deferred
\* path as well; an invalidation without metrics leaves them unchanged.
C15_ViewportMetrics ==
    [][\A properties \in {NoProperties} \cup Metrics :
          OnInvalidation(properties)
            => IF properties # NoProperties
               THEN /\ viewport_metrics_' = properties
                    /\ runtime_metrics' = properties
               ELSE UNCHANGED <<viewport_metrics_, runtime_metrics>>]_vars

\* An invalidation has just been deferred and the metrics are new: the three
\* frames before it were all rendered with the initial metrics.
C15_Witness ==
    /\ Idle
    /\ Count(log, "defer") = 1
    /\ viewport_metrics_ # NoProperties
    /\ runtime_metrics = viewport_metrics_
    /\ Len(gpu_tasks) = 3
    /\ \A k \in 1..3 : gpu_tasks[k].frame_size = NoProperties

\* C16: the Draw task Render posts carries the scene version of the
\* invalidation whose handling began the frame and the viewport metrics of
\* that moment, and a task in the GPU queue is never changed afterwards.
C16_Stamps ==
    /\ [][(/\ Len(gpu_tasks') > Len(gpu_tasks)
           /\ gpu_tasks'[Len(gpu_tasks')].kind = "Draw")
            => /\ ImmediateLog
               /\ gpu_tasks' =
                     Append(gpu_tasks,
                            [kind |-> "Draw",
                             scene_version |-> log[1].id,
                             frame_size |-> viewport_metrics_])]_vars
    /\ [][\/ gpu_tasks' = gpu_tasks
          \/ gpu_tasks # <<>> /\ gpu_tasks' = Tail(gpu_tasks)
          \/ /\ Len(gpu_tasks') = Len(gpu_tasks) + 1
             /\ SubSeq(gpu_tasks', 1, Len(gpu_tasks)) = gpu_tasks]_vars

\* A Draw task is queued whose stamps differ from the scene version and
\* the metrics a later invalidation has recorded.
C16_Witness ==
    /\ gpu_tasks # <<>>
    /\ gpu_tasks[1].kind = "Draw"
    /\ gpu_tasks[1].scene_version >= 1
    /\ gpu_tasks[1].scene_version < scene_version_
    /\ gpu_tasks[1].frame_size # viewport_metrics_

\* C17: the ready-to-draw flag is true only inside the producer's frame
\* callback of a BeginFrame, before any effective Render; it is false
\* whenever no BeginFrame is executing.
C17_ReadyWindow ==
    is_ready_to_draw_
      => /\ Top = "runtime_BeginFrame"
         /\ Count(log, "BeginFrame") = 1
         /\ Count(log, "PostDraw") = 0

\* The flag is still set in a frame callback after a call of the producer
\* that was not a Render.
C17_Witness ==
    /\ is_ready_to_draw_
    /\ Top = "runtime_BeginFrame"
    /\ producer_calls = 1

\* C18: Draw is never executed inside Render, BeginFrame or OnInvalidation:
\* a step of the control context starts no draw, Render only appends a task
\* to the GPU queue, and a draw starts only when the GPU context takes a
\* Draw task from the head of its queue, a step that leaves the control
\* context where it was.
C18_DrawIsPosted ==
    /\ [][(pc' # pc \/ log' # log \/ holder' # holder)
            => UNCHANGED draws_in_progress]_vars
    /\ [][RenderCall
            => \/ UNCHANGED gpu_tasks
               \/ /\ Len(gpu_tasks') = Len(gpu_tasks) + 1
                  /\ gpu_tasks'[Len(gpu_tasks')].kind = "Draw"]_vars
    /\ [][draws_in_progress' > draws_in_progress
            => /\ gpu_tasks # <<>>
               /\ Head(gpu_tasks).kind = "Draw"
               /\ gpu_tasks' = Tail(gpu_tasks)
               /\ draws_in_progress' = draws_in_progress + 1]_vars

\* OnInvalidation has returned after a frame that rendered, and the Draw it
\* posted has not started.
C18_Witness ==
    /\ Idle
    /\ ImmediateLog
    /\ Count(log, "PostDraw") = 1
    /\ outstanding_requests_ = 1
    /\ Len(gpu_tasks) = 1
    /\ gpu_tasks[1].kind = "Draw"
    /\ draws_in_progress = 0
    /\ completions = 0

C20_DepthClamped ==
    ~dchecks_on
      => /\ outstanding_requests_ >= 0
         /\ outstanding_requests_ <= 3

\* C21: HandlePlatformMessage completes the response of a message at most
\* once; a message with a response object is completed exactly once, with
\* data when it is an asset message whose asset is found and with the empty
\* completion otherwise.
C21_CompletedOnce ==
    [][\A m \in Messages :
          HandlePlatformMessage(m)
            => /\ Len(response') <= 1
               /\ m.has_response
                    => response' =
                          IF m.channel = kAssetChannel /\ m.asset_found
                          THEN <<"Complete">>
                          ELSE <<"CompleteEmpty">>]_vars

\* C22: handling a platform message of the text input channel, malformed or
\* not, or of an unknown channel yields one empty completion when the
\* message has a response object, does not end the process and leaves the
\* frame pipeline's state unchanged.
C22_PipelineInsulated ==
    [][\A m \in Messages :
          (HandlePlatformMessage(m) /\ m.channel # kAssetChannel)
            => /\ ~aborted'
               /\ UNCHANGED holder
               /\ m.has_response => response' = <<"CompleteEmpty">>]_vars

\* Number of Draw tasks in a queue of the GPU context.
RECURSIVE Draws(_)
Draws(q) ==
    IF q = <<>> THEN 0
    ELSE (IF Head(q).kind = "Draw" THEN 1 ELSE 0) + Draws(Tail(q))

\* The draws Render has posted that the GPU context has not finished.
Unfinished == Draws(gpu_tasks) + draws_in_progress

\* C23: there is no timeout.  While the controller lives, every posted draw
\* that has not finished holds its unit of depth; and while three unfinished
\* draws hold the depth at 3, an arriving invalidation is deferred without
\* acknowledgement and the held one stays in the slot, unacknowledged.
C23_NoTimeout ==
    /\ [](alive => outstanding_requests_ >= Unfinished)
    /\ [](alive /\ Unfinished > 0 => outstanding_requests_ >= 1)
    /\ [][(OnInvalidationStep /\ Unfinished = 3)
            => /\ outstanding_requests_ = 3
               /\ deferred_invalidation_callback_' = next_id
               /\ UNCHANGED <<acks, outstanding_requests_>>]_vars
    /\ [][(/\ deferred_invalidation_callback_ # NoCallback
           /\ Unfinished = 3
           /\ Unfinished' = 3
           /\ alive')
            => /\ UNCHANGED <<deferred_invalidation_callback_, acks,
                              outstanding_requests_>>
               /\ acks[deferred_invalidation_callback_] = 0]_vars

\* Three draws are unfinished, an invalidation is held in the slot without
\* acknowledgement, and the runtime has asked for a frame in vain.
C23_Witness ==
    /\ alive /\ Idle
    /\ Unfinished = 3
    /\ draws_in_progress >= 1
    /\ outstanding_requests_ = 3
    /\ deferred_invalidation_callback_ = 4
    /\ acks[4] = 0
    /\ ~pending_invalidation_
    /\ view_invalidates = 3

\* C24: when every task posted is run, the bridge keeps its protocol and
\* the controller is not torn down, every invalidation held in the deferred
\* slot is eventually acknowledged.
C24_DeferredAcknowledged ==
    \A i \in Callbacks :
        (deferred_invalidation_callback_ = i) ~> (acks[i] = 1)

\* An invalidation that was held has been acknowledged, every frame has
\* completed and the controller is alive.
C24_Witness ==
    /\ alive /\ Idle
    /\ deferred_ever # {}
    /\ deferred_invalidation_callback_ = NoCallback
    /\ \A i \in deferred_ever : acks[i] = 1
    /\ outstanding_requests_ = 0
    /\ Unfinished = 0
    /\ completions = 0

\* C25: scenes reach Draw in the order in which their frames were begun.
\* The Draw tasks in the GPU queue are in the order of their scene versions
\* and none is newer than the version the controller holds, the GPU context
\* always takes the task at the head, so the scene it draws is no newer
\* than any scene queued or posted later, and the version the controller
\* holds never decreases.
C25_DrawOrder ==
    /\ [](\A i, j \in 1..Len(gpu_tasks) :
            (i < j /\ gpu_tasks[i].kind = "Draw" /\ gpu_tasks[j].kind = "Draw")
              => gpu_tasks[i].scene_version < gpu_tasks[j].scene_version)
    /\ [](\A i \in 1..Len(gpu_tasks) :
            gpu_tasks[i].scene_version <= scene_version_)
    /\ [][draws_in_progress' > draws_in_progress
            => /\ gpu_tasks' = Tail(gpu_tasks)
               /\ \A i \in 1..Len(gpu_tasks') :
                     gpu_tasks'[i].kind = "Draw"
                       => Head(gpu_tasks).scene_version
                            < gpu_tasks'[i].scene_version]_vars
    /\ [][scene_version_' >= scene_version_]_vars

\* A draw has started while two scenes of later frames wait in the queue.
C25_Witness ==
    /\ draws_in_progress >= 1
    /\ Len(gpu_tasks) = 2
    /\ gpu_tasks[1].kind = "Draw"
    /\ gpu_tasks[2].kind = "Draw"
    /\ gpu_tasks[1].scene_version = 2
    /\ gpu_tasks[2].scene_version = 3

\* C26: when the bridge keeps its protocol and every draw completes once, no
\* debug assertion fails: the process never aborts, BeginFrame is entered
\* with 0 < depth <= 3 and the ready flag false, OnFrameComplete is entered
\* with depth > 0, and an invalidation is deferred only into an empty slot.
C26_AssertionsHold ==
    /\ [](~aborted)
    /\ [](Top = "BeginFrame"
            => /\ outstanding_requests_ > 0
               /\ outstanding_requests_ <= 3
               /\ ~is_ready_to_draw_)
    /\ [](Top = "OnFrameComplete" => outstanding_requests_ > 0)
    /\ [][(OnInvalidationStep /\ outstanding_requests_ >= 3)
            => deferred_invalidation_callback_ = NoCallback]_vars

\* A build with assertions enters BeginFrame at the greatest depth, while
\* the draws of the two frames before are unfinished.
C26_Witness ==
    /\ dchecks_on
    /\ Top = "BeginFrame"
    /\ outstanding_requests_ = 3
    /\ Unfinished = 2

\* C27: the destructor invokes a held callback exactly once, it invokes no
\* other callback, and after it has run no callback is invoked again.
C27_TeardownAcknowledges ==
    /\ [][(alive /\ ~alive')
            => acks' =
                 IF deferred_invalidation_callback_ # NoCallback
                 THEN [acks EXCEPT ![deferred_invalidation_callback_] = 1]
                 ELSE acks]_vars
    /\ [][~alive => UNCHANGED <<acks, pc>>]_vars
    /\ [](\A i \in Callbacks : acks[i] <= 1)

\* The controller was destroyed while it held the fourth invalidation, which
\* is acknowledged, and the draws that were in flight have since completed
\* without effect.
C27_Witness ==
    /\ ~alive
    /\ deferred_invalidation_callback_ = 4
    /\ acks[4] = 1
    /\ outstanding_requests_ = 3
    /\ Unfinished = 0
    /\ completions = 0
    /\ Idle

\* C28: while the deferred slot is occupied the pending flag is false; the
\* ScheduleFrame of a drain always takes effect: it finds the flag clear,
\* sets it and notifies the bridge once, and the flag is still set when
\* the drain has invoked the callback.
C28_DrainSchedules ==
    /\ [](deferred_invalidation_callback_ # NoCallback
            => ~pending_invalidation_)
    /\ [][(Top = "OnFrameComplete_ScheduleFrame" /\ pc' # pc)
            => /\ ~pending_invalidation_
               /\ pending_invalidation_'
               /\ view_invalidates' = view_invalidates + 1]_vars
    /\ [][(Top = "OnFrameComplete_callback" /\ pc' # pc)
            => /\ pending_invalidation_'
               /\ Count(log', "Invalidate") = 1]_vars

\* A drain has ended: the callback was acknowledged after one notification
\* of the bridge, and the flag is set.
C28_Witness ==
    /\ Idle
    /\ Count(log, "drain") = 1
    /\ Count(log, "Invalidate") = 1
    /\ Count(log, "ack") = 1
    /\ pending_invalidation_
    /\ deferred_invalidation_callback_ = NoCallback

\* C29: while the controller lives and no handler executes, the depth is
\* the number of scenes posted whose completion OnFrameComplete has not
\* processed; a frame that posted a scene is not completed by BeginFrame,
\* and a frame that posted none is.
C29_DepthAccounting ==
    /\ [](Running /\ Idle
            => outstanding_requests_ = Unfinished + completions)
    /\ [][(Top = "runtime_BeginFrame" /\ Top' # "runtime_BeginFrame")
            => IF Count(log, "PostDraw") = 0
               THEN Top' = "OnFrameComplete"
               ELSE /\ Count(log, "PostDraw") = 1
                    /\ Top' # "OnFrameComplete"]_vars
    /\ [][outstanding_requests_' < outstanding_requests_
            => outstanding_requests_' = outstanding_requests_ - 1]_vars

\* Three scenes are accounted for: one queued, one being drawn, one whose
\* completion waits for the control context.
C29_Witness ==
    /\ Running /\ Idle
    /\ outstanding_requests_ = 3
    /\ Draws(gpu_tasks) = 1
    /\ draws_in_progress = 1
    /\ completions = 1

\* C30: the destructor does not delete the rasterizer, it posts the deletion
\* behind the tasks already in the GPU queue; no Draw or SetScene task is
\* queued behind the deletion, and none runs once the rasterizer is deleted.
C30_RasterizerLifetime ==
    /\ [][(alive /\ ~alive')
            => /\ gpu_tasks' = Append(gpu_tasks, DeleteRasterizerTask)
               /\ ~rasterizer_deleted']_vars
    /\ [](\A i, j \in 1..Len(gpu_tasks) :
            (i < j /\ gpu_tasks[i].kind = "DeleteRasterizer")
              => gpu_tasks[j].kind \notin {"Draw", "SetScene"})
    /\ [][(/\ gpu_tasks # <<>>
           /\ gpu_tasks' = Tail(gpu_tasks)
           /\ Head(gpu_tasks).kind \in {"Draw", "SetScene"})
            => ~rasterizer_deleted]_vars
    /\ [](rasterizer_deleted
            => \A i \in 1..Len(gpu_tasks) :
                  gpu_tasks[i].kind \notin {"Draw", "SetScene"})

\* The controller is destroyed and the deletion waits in the queue behind
\* the SetScene task and a Draw task.
C30_Witness ==
    /\ ~alive
    /\ ~rasterizer_deleted
    /\ Len(gpu_tasks) = 3
    /\ gpu_tasks[1].kind = "SetScene"
    /\ gpu_tasks[2].kind = "Draw"
    /\ gpu_tasks[3].kind = "DeleteRasterizer"

\* C31: the constructor of fml::Thread returns only after the new thread
\* has initialized its loop, published the task runner and signalled; once
\* it has returned GetTaskRunner() is the new thread's task runner, never
\* null, and the new thread writes no local of the constructor.
C31_Rendezvous ==
    /\ [][(owner = "latch.Wait" /\ owner' # "latch.Wait")
            => /\ Head(thread_) = "Run"
               /\ runner = "task_runner"
               /\ task_runner_' = "task_runner"]_vars
    /\ [](owner \notin {"start", "latch.Wait"}
            => GetTaskRunner = "task_runner")
    /\ [](stale_writes = 0)
    /\ [](owner # "start" => ~aborted)

\* The constructor has returned and a task posted through GetTaskRunner()
\* waits in the loop of the new thread, which is running.
C31_Witness ==
    /\ owner = "idle"
    /\ thread_ = <<"Run">>
    /\ loop_tasks = <<"task">>
    /\ ~joined_

\* C32: over any sequence of Join calls followed by the destructor the
\* Terminate task is posted once and the thread is joined once; a Join that
\* finds joined_ set changes nothing.
C32_JoinIdempotent ==
    /\ [](terminate_posts <= 1 /\ thread_joins <= 1)
    /\ [](owner = "destroyed"
            => terminate_posts = 1 /\ thread_joins = 1)
    /\ [][(join_calls' = join_calls + 1 /\ joined_)
            => UNCHANGED <<owner, thread_, task_runner_, joined_, loop_tasks,
                           terminate_posts, thread_joins>>]_vars
    /\ [][(owner = "idle" /\ owner' = "destroyed")
            => UNCHANGED <<thread_, loop_tasks, terminate_posts,
                           thread_joins>>]_vars

\* Join was called twice and the destructor has run after them.
C32_Witness ==
    /\ owner = "destroyed"
    /\ join_calls = 2
    /\ terminate_posts = 1
    /\ thread_joins = 1

\* The devices whose most recent DOWN was not followed by UP or CANCEL.
Pressed ==
    {d \in Devices :
        \E i \in 1..Len(events) :
            /\ events[i] = [kind |-> "pointer", phase |-> "DOWN", device |-> d]
            /\ \A j \in (i + 1)..Len(events) :
                   ~(/\ events[j].kind = "pointer"
                     /\ events[j].device = d
                     /\ events[j].phase \in {"UP", "CANCEL"})}

\* The step is OnEvent with a pointer event.
PointerEventStep ==
    /\ Len(events') = Len(events) + 1
    /\ events'[Len(events')].kind = "pointer"

\* The pointer event of the step is dispatched as the claim says (a MOVE as
\* a hover or a move by the set of down pointers) and reported handled by
\* one callback invocation.
PointerEventHandled ==
    LET event == events'[Len(events')] IN
        /\ event_callbacks' = <<TRUE>>
        /\ dispatched'.kind = "pointer"
        /\ dispatched'.device = event.device
        /\ event.phase = "MOVE"
             => dispatched'.change =
                    IF event.device \in down_pointers_
                    THEN "kMove" ELSE "kHover"

\* The pointer event of the step fails the FTL_DCHECK of OnEvent.
FailsPointerCheck ==
    LET event == events'[Len(events')] IN
        /\ dchecks_on
        /\ event.phase \in {"ADD", "REMOVE", "HOVER"}
        /\ event.device \in down_pointers_

\* C33 as stated: the set of down pointers is the set of pressed devices,
\* and every pointer event is dispatched (a MOVE as hover or move by the
\* set) and reported handled through exactly one callback invocation.
C33_Original ==
    /\ [](down_pointers_ = Pressed)
    /\ [][PointerEventStep => PointerEventHandled]_vars

\* C33, amended: the same for every pointer event except an ADD, REMOVE or
\* HOVER for a device in the set of down pointers in a build with DCHECKs,
\* which ends the process before any dispatch or callback.
C33_PointerTracking ==
    /\ [](down_pointers_ = Pressed)
    /\ [][(PointerEventStep /\ ~FailsPointerCheck)
            => PointerEventHandled /\ UNCHANGED aborted]_vars
    /\ [][(PointerEventStep /\ FailsPointerCheck)
            => aborted' /\ event_callbacks' = <<>>]_vars

\* Device 1 is down; a MOVE for device 1 was dispatched as a move after a
\* MOVE for device 2 had been delivered.
C33_Witness ==
    /\ Len(events) = 3
    /\ events[1] = [kind |-> "pointer", phase |-> "DOWN", device |-> 1]
    /\ events[2] = [kind |-> "pointer", phase |-> "MOVE", device |-> 2]
    /\ events[3] = [kind |-> "pointer", phase |-> "MOVE", device |-> 1]
    /\ down_pointers_ = {1}
    /\ dispatched = [kind |-> "pointer", change |-> "kMove", device |-> 1]
    /\ event_callbacks = <<TRUE>>

\* Every unit of the text is a character of its own.
SingleUnits(string) == \A i \in 1..Len(string) : string[i] = "a"

\* C34: rangeForCharacterAtIndex returns a range of non-zero length for
\* every index below the length of the text, and positionFromPosition with
\* a positive offset n from index p of a text of single-unit characters
\* returns min(p + n, length).
C34_PositionAdvances ==
    /\ \A index \in 0..(Len(text) - 1) :
           rangeForCharacterAtIndex(index).length > 0
    /\ (position.offset > 0 /\ SingleUnits(position.text))
           => position.index =
                  MIN(position.from + position.offset, Len(position.text))

\* C35: after replaceRange:withText: on a selection and a range within the
\* text, and after setTextInputState with any base and extent, the end of
\* the selected range is at most the length of the text.
C35_SelectionInBounds ==
    ULessEq(NSMaxRange(selectedTextRange), Len(text))

====
